---- MODULE Spec2Model ----
(***************************************************************************)
(* Minimal chess (scripts/chess.py): board, pseudo-legal move generation,  *)
(* check detection, notation parsing and the turn controller of main().    *)
(* Squares are (x, y) with x the column 0..7 and y the row 0..7; a board   *)
(* is indexed board[y][x] as in the source.  Text is a sequence of         *)
(* one-character strings.                                                  *)
(***************************************************************************)
EXTENDS Integers, Sequences, FiniteSets, TLC

VARIABLES board, turn, pc, move, result, prev, accepted, call

vars == <<board, turn, pc, move, result, prev, accepted, call>>

\* Python's None: as a color (a string) and as an absent tuple.
None == "None"

NoTuple == <<>>

Idx == 0..7

(***************************************************************************)
(* Text helpers: str.strip(), str.lower(), str.replace(" ", "").           *)
(***************************************************************************)
UpperChars == <<"A","B","C","D","E","F","G","H","I","J","K","L","M",
                "N","O","P","Q","R","S","T","U","V","W","X","Y","Z">>

LowerChars == <<"a","b","c","d","e","f","g","h","i","j","k","l","m",
                "n","o","p","q","r","s","t","u","v","w","x","y","z">>

Whitespace == {" ", "\t"}

Range(s) == {s[i] : i \in 1..Len(s)}

isupper(ch) == \E i \in 1..Len(UpperChars) : UpperChars[i] = ch

lower_char(ch) ==
  IF isupper(ch)
    THEN LowerChars[CHOOSE i \in 1..Len(UpperChars) : UpperChars[i] = ch]
    ELSE ch

lower(s) == [i \in 1..Len(s) |-> lower_char(s[i])]

strip(s) ==
  LET keep == {i \in 1..Len(s) : s[i] \notin Whitespace}
  IN IF keep = {} THEN <<>>
     ELSE LET lo == CHOOSE i \in keep : \A j \in keep : i <= j
              hi == CHOOSE i \in keep : \A j \in keep : j <= i
          IN SubSeq(s, lo, hi)

remove_spaces(s) == SelectSeq(s, LAMBDA ch : ch # " ")

index_of(s, ch) == (CHOOSE i \in 1..Len(s) : s[i] = ch /\ \A j \in 1..(i-1) : s[j] # ch) - 1

(***************************************************************************)
(* Board model.                                                            *)
(***************************************************************************)
FILES == <<"a","b","c","d","e","f","g","h">>

RANKS == <<"1","2","3","4","5","6","7","8">>

Row(t) == [x \in Idx |-> t[x + 1]]

Rows(t) == [y \in Idx |-> t[y + 1]]

new_board_swapped ==
  Rows(<< Row(<<"r","n","b","k","q","b","n","r">>),
          Row(<<"p","p","p","p","p","p","p","p">>),
          Row(<<".",".",".",".",".",".",".",".">>),
          Row(<<".",".",".",".",".",".",".",".">>),
          Row(<<".",".",".",".",".",".",".",".">>),
          Row(<<".",".",".",".",".",".",".",".">>),
          Row(<<"P","P","P","P","P","P","P","P">>),
          Row(<<"R","N","B","K","Q","B","N","R">>) >>)

new_board ==
  Rows(<< Row(<<"r","n","b","q","k","b","n","r">>),
          Row(<<"p","p","p","p","p","p","p","p">>),
          Row(<<".",".",".",".",".",".",".",".">>),
          Row(<<".",".",".",".",".",".",".",".">>),
          Row(<<".",".",".",".",".",".",".",".">>),
          Row(<<".",".",".",".",".",".",".",".">>),
          Row(<<"P","P","P","P","P","P","P","P">>),
          Row(<<"R","N","B","Q","K","B","N","R">>) >>)

color(piece) ==
  IF piece = "." THEN None
  ELSE IF isupper(piece) THEN "w" ELSE "b"

in_bounds(x, y) == 0 <= x /\ x < 8 /\ 0 <= y /\ y < 8

(***************************************************************************)
(* Move generator.  The result is the list res in the order the source     *)
(* appends to it.                                                          *)
(***************************************************************************)
add(b, c, res, nx, ny) ==
  IF ~in_bounds(nx, ny) THEN res
  ELSE IF b[ny][nx] # "." /\ color(b[ny][nx]) = c THEN res
  ELSE Append(res, <<nx, ny>>)

\* Faulty variant of ray: no break after an enemy piece (lines 58-59 dropped).
RECURSIVE ray_from_through(_, _, _, _, _, _, _)
ray_from_through(b, c, res, nx, ny, dx, dy) ==
  IF ~in_bounds(nx, ny) THEN res
  ELSE IF b[ny][nx] # "." /\ color(b[ny][nx]) = c THEN res
  ELSE ray_from_through(b, c, Append(res, <<nx, ny>>), nx + dx, ny + dy, dx, dy)

RECURSIVE ray_from(_, _, _, _, _, _, _)
ray_from(b, c, res, nx, ny, dx, dy) ==
  IF ~in_bounds(nx, ny) THEN res
  ELSE IF b[ny][nx] # "." /\ color(b[ny][nx]) = c THEN res
  ELSE IF b[ny][nx] # "." THEN Append(res, <<nx, ny>>)
  ELSE ray_from(b, c, Append(res, <<nx, ny>>), nx + dx, ny + dy, dx, dy)

ray(b, c, res, x, y, dx, dy) == ray_from(b, c, res, x + dx, y + dy, dx, dy)

RECURSIVE add_all(_, _, _, _, _, _)
add_all(b, c, res, x, y, offsets) ==
  IF offsets = <<>> THEN res
  ELSE add_all(b, c, add(b, c, res, x + Head(offsets)[1], y + Head(offsets)[2]),
               x, y, Tail(offsets))

RECURSIVE ray_all(_, _, _, _, _, _)
ray_all(b, c, res, x, y, dirs) ==
  IF dirs = <<>> THEN res
  ELSE ray_all(b, c, ray(b, c, res, x, y, Head(dirs)[1], Head(dirs)[2]),
               x, y, Tail(dirs))

KnightOffsets ==
  << <<1, 2>>, <<2, 1>>, <<-1, 2>>, <<-2, 1>>,
     <<1, -2>>, <<2, -1>>, <<-1, -2>>, <<-2, -1>> >>

DiagonalDirs == << <<1, 1>>, <<1, -1>>, <<-1, 1>>, <<-1, -1>> >>

StraightDirs == << <<1, 0>>, <<-1, 0>>, <<0, 1>>, <<0, -1>> >>

KingOffsets ==
  << <<-1, -1>>, <<-1, 0>>, <<-1, 1>>, <<0, -1>>,
     <<0, 1>>, <<1, -1>>, <<1, 0>>, <<1, 1>> >>

\* Faulty variant of the pawn's forward moves: the two-step is also allowed
\* from the row after the starting row.
pawn_forward_wide(b, c, x, y) ==
  LET direction == IF c = "w" THEN -1 ELSE 1
      start_row == IF c = "w" THEN 6 ELSE 1
      one       == y + direction
      two       == y + 2 * direction
  IN IF in_bounds(x, one) /\ b[one][x] = "."
       THEN IF y \in {start_row, start_row + direction} /\ b[two][x] = "."
              THEN << <<x, one>>, <<x, two>> >>
              ELSE << <<x, one>> >>
       ELSE <<>>

\* Faulty variant of the pawn's forward moves: no two-step at all.
pawn_forward_single(b, c, x, y) ==
  LET direction == IF c = "w" THEN -1 ELSE 1
      one       == y + direction
  IN IF in_bounds(x, one) /\ b[one][x] = "."
       THEN << <<x, one>> >>
       ELSE <<>>

\* Faulty variant of the pawn's forward moves: the long step from the
\* starting row goes three rows instead of two.
pawn_forward_three(b, c, x, y) ==
  LET direction == IF c = "w" THEN -1 ELSE 1
      start_row == IF c = "w" THEN 6 ELSE 1
      one       == y + direction
      two       == y + 3 * direction
  IN IF in_bounds(x, one) /\ b[one][x] = "."
       THEN IF y = start_row /\ b[two][x] = "."
              THEN << <<x, one>>, <<x, two>> >>
              ELSE << <<x, one>> >>
       ELSE <<>>

pawn_forward(b, c, x, y) ==
  LET direction == IF c = "w" THEN -1 ELSE 1
      start_row == IF c = "w" THEN 6 ELSE 1
      one       == y + direction
      two       == y + 2 * direction
  IN IF in_bounds(x, one) /\ b[one][x] = "."
       THEN IF y = start_row /\ b[two][x] = "."
              THEN << <<x, one>>, <<x, two>> >>
              ELSE << <<x, one>> >>
       ELSE <<>>

\* Faulty variant of the pawn's capture: any occupied diagonal square, the
\* color test of line 75 dropped.
pawn_capture_any(b, c, x, y, dx) ==
  LET direction == IF c = "w" THEN -1 ELSE 1
      nx        == x + dx
      ny        == y + direction
  IN IF in_bounds(nx, ny) /\ b[ny][nx] # "."
       THEN << <<nx, ny>> >>
       ELSE <<>>

\* Faulty variant of the pawn's capture: the empty-square test of line 75
\* dropped, so a pawn also steps diagonally onto an empty square.
pawn_capture_empty_too(b, c, x, y, dx) ==
  LET direction == IF c = "w" THEN -1 ELSE 1
      nx        == x + dx
      ny        == y + direction
  IN IF in_bounds(nx, ny) /\ color(b[ny][nx]) # c
       THEN << <<nx, ny>> >>
       ELSE <<>>

pawn_capture(b, c, x, y, dx) ==
  LET direction == IF c = "w" THEN -1 ELSE 1
      nx        == x + dx
      ny        == y + direction
  IN IF in_bounds(nx, ny) /\ b[ny][nx] # "." /\ color(b[ny][nx]) # c
       THEN << <<nx, ny>> >>
       ELSE <<>>

pawn_moves(b, c, x, y) ==
  pawn_forward(b, c, x, y) \o pawn_capture(b, c, x, y, -1) \o pawn_capture(b, c, x, y, 1)

moves_for(b, x, y) ==
  LET piece == b[y][x]
      c     == color(piece)
      p     == lower_char(piece)
  IN IF c = None THEN <<>>
     ELSE IF p = "p" THEN pawn_moves(b, c, x, y)
     ELSE IF p = "n" THEN add_all(b, c, <<>>, x, y, KnightOffsets)
     ELSE LET r1 == IF p \in {"b", "q"} THEN ray_all(b, c, <<>>, x, y, DiagonalDirs) ELSE <<>>
              r2 == IF p \in {"r", "q"} THEN ray_all(b, c, r1, x, y, StraightDirs) ELSE r1
          IN IF p = "k" THEN add_all(b, c, r2, x, y, KingOffsets) ELSE r2

(***************************************************************************)
(* Check detector.                                                         *)
(***************************************************************************)
\* Faulty variant of the king search: the glyphs of line 111 swapped.
king_pos_swapped(b, side) ==
  LET king == IF side = "w" THEN "k" ELSE "K"
      at   == {i \in 0..63 : b[i \div 8][i % 8] = king}
  IN IF at = {} THEN NoTuple
     ELSE LET i == CHOOSE i \in at : \A j \in at : i <= j
          IN <<i % 8, i \div 8>>

\* Faulty variant of the king search: the square recorded as (y, x)
\* (line 115 with the coordinates exchanged).
king_pos_transposed(b, side) ==
  LET king == IF side = "w" THEN "K" ELSE "k"
      at   == {i \in 0..63 : b[i \div 8][i % 8] = king}
  IN IF at = {} THEN NoTuple
     ELSE LET i == CHOOSE i \in at : \A j \in at : i <= j
          IN <<i \div 8, i % 8>>

king_pos(b, side) ==
  LET king == IF side = "w" THEN "K" ELSE "k"
      at   == {i \in 0..63 : b[i \div 8][i % 8] = king}
  IN IF at = {} THEN NoTuple
     ELSE LET i == CHOOSE i \in at : \A j \in at : i <= j
          IN <<i % 8, i \div 8>>

\* Faulty variant of the check scan: pieces of the side's own color are
\* scanned instead of the enemy's (line 121 with == for !=).
is_in_check_own_pieces(b, side) ==
  LET kp == king_pos(b, side)
  IN IF kp = NoTuple THEN FALSE
     ELSE \E y \in Idx : \E x \in Idx :
            /\ color(b[y][x]) # None
            /\ color(b[y][x]) = side
            /\ kp \in Range(moves_for(b, x, y))

\* Faulty variant of the king test: a side without a king counts as in check
\* (line 118 returning True).
is_in_check_absent_true(b, side) ==
  LET kp == king_pos(b, side)
  IN IF kp = NoTuple THEN TRUE
     ELSE \E y \in Idx : \E x \in Idx :
            /\ color(b[y][x]) # None
            /\ color(b[y][x]) # side
            /\ kp \in Range(moves_for(b, x, y))

\* Faulty variant of the check scan: the answer is given by the first enemy
\* piece met (line 121 returning the membership test instead of testing it).
is_in_check_first_enemy_only(b, side) ==
  LET kp == king_pos(b, side)
      enemies == {i \in 0..63 : /\ color(b[i \div 8][i % 8]) # None
                                /\ color(b[i \div 8][i % 8]) # side}
  IN IF kp = NoTuple \/ enemies = {} THEN FALSE
     ELSE LET i == CHOOSE i \in enemies : \A j \in enemies : i <= j
          IN kp \in Range(moves_for(b, i % 8, i \div 8))

\* Faulty variant of the check detector: no position counts as check (line
\* 122 returning False).
is_in_check_never(b, side) == FALSE

is_in_check(b, side) ==
  LET kp == king_pos(b, side)
  IN IF kp = NoTuple THEN FALSE
     ELSE \E y \in Idx : \E x \in Idx :
            /\ color(b[y][x]) # None
            /\ color(b[y][x]) # side
            /\ kp \in Range(moves_for(b, x, y))

(***************************************************************************)
(* Notation parser.                                                        *)
(***************************************************************************)
parse_move_no_lower(text) ==
  LET m == remove_spaces(strip(text))
  IN IF Len(m) # 4 THEN NoTuple
     ELSE IF \/ m[1] \notin Range(FILES) \/ m[3] \notin Range(FILES)
             \/ m[2] \notin Range(RANKS) \/ m[4] \notin Range(RANKS)
       THEN NoTuple
     ELSE << index_of(FILES, m[1]), 8 - (index_of(RANKS, m[2]) + 1),
             index_of(FILES, m[3]), 8 - (index_of(RANKS, m[4]) + 1) >>

parse_move_rank_minus_one(text) ==
  LET m == remove_spaces(lower(strip(text)))
  IN IF Len(m) # 4 THEN NoTuple
     ELSE IF \/ m[1] \notin Range(FILES) \/ m[3] \notin Range(FILES)
             \/ m[2] \notin Range(RANKS) \/ m[4] \notin Range(RANKS)
       THEN NoTuple
     ELSE << index_of(FILES, m[1]), (index_of(RANKS, m[2]) + 1) - 1,
             index_of(FILES, m[3]), (index_of(RANKS, m[4]) + 1) - 1 >>

parse_move(text) ==
  LET m == remove_spaces(lower(strip(text)))
  IN IF Len(m) # 4 THEN NoTuple
     ELSE IF \/ m[1] \notin Range(FILES) \/ m[3] \notin Range(FILES)
             \/ m[2] \notin Range(RANKS) \/ m[4] \notin Range(RANKS)
       THEN NoTuple
     ELSE << index_of(FILES, m[1]), 8 - (index_of(RANKS, m[2]) + 1),
             index_of(FILES, m[3]), 8 - (index_of(RANKS, m[4]) + 1) >>

(***************************************************************************)
(* Board rendering: the lines print_board writes, each a sequence of       *)
(* characters.                                                             *)
(***************************************************************************)
\* " ".join(row)
join_row(row) ==
  [i \in 1..15 |-> IF i % 2 = 1 THEN row[(i - 1) \div 2] ELSE " "]

print_board(b) ==
  << <<" "," ","a"," ","b"," ","c"," ","d"," ","e"," ","f"," ","g"," ","h">> >>
  \o [k \in 1..8 |-> <<RANKS[8 - (k - 1)], " ">> \o join_row(b[k - 1])]
  \o << <<>> >>

(***************************************************************************)
(* Turn controller: one iteration of the loop of main().                   *)
(***************************************************************************)
BadFormat == "Invalid move format."

NoPieceOrWrongColor == "No piece to move."

IllegalDestination == "Illegal move."

LeavesKingInCheck == "Move leaves king in check."

Accepted == "Accepted"

Rejections == {BadFormat, NoPieceOrWrongColor, IllegalDestination, LeavesKingInCheck}

QuitWords == { <<"q">>, <<"q","u","i","t">>, <<"e","x","i","t">> }

put(b, x, y, piece) == [b EXCEPT ![y][x] = piece]

\* Faulty variant of the simulation: clone = board, so the writes go to the
\* live board as well.
simulate_aliased(b, t, piece, fx, fy, tx, ty) ==
  LET c1 == put(b, tx, ty, piece)
      c2 == put(c1, fx, fy, ".")
      c3 == IF lower_char(piece) = "p" /\ ty \in {0, 7}
              THEN put(c2, tx, ty, IF t = "w" THEN "Q" ELSE "q")
              ELSE c2
  IN [live |-> c3, clone |-> c3]

\* Faulty variant of the simulation: the promotion of lines 168-169 left out.
simulate_no_promotion(b, t, piece, fx, fy, tx, ty) ==
  LET c1 == put(b, tx, ty, piece)
      c2 == put(c1, fx, fy, ".")
  IN [live |-> b, clone |-> c2]

\* Faulty variant of the simulation: the source square is cleared on the live
\* board instead of the clone (board[fy][fx] for clone[fy][fx] on line 167).
simulate_clears_live(b, t, piece, fx, fy, tx, ty) ==
  LET c1 == put(b, tx, ty, piece)
      c3 == IF lower_char(piece) = "p" /\ ty \in {0, 7}
              THEN put(c1, tx, ty, IF t = "w" THEN "Q" ELSE "q")
              ELSE c1
  IN [live |-> put(b, fx, fy, "."), clone |-> put(c3, fx, fy, ".")]

\* Faulty variant of the simulation: the source square is not cleared (line
\* 167 left out).
simulate_keeps_source(b, t, piece, fx, fy, tx, ty) ==
  LET c1 == put(b, tx, ty, piece)
      c3 == IF lower_char(piece) = "p" /\ ty \in {0, 7}
              THEN put(c1, tx, ty, IF t = "w" THEN "Q" ELSE "q")
              ELSE c1
  IN [live |-> b, clone |-> c3]

\* Faulty variant of the simulation: promotion on row 0 only (line 168
\* without the test ty == 7).
simulate_promotes_row_zero_only(b, t, piece, fx, fy, tx, ty) ==
  LET c1 == put(b, tx, ty, piece)
      c2 == put(c1, fx, fy, ".")
      c3 == IF lower_char(piece) = "p" /\ ty = 0
              THEN put(c2, tx, ty, IF t = "w" THEN "Q" ELSE "q")
              ELSE c2
  IN [live |-> b, clone |-> c3]

\* clone = [row[:] for row in board] and the three writes to it, in order:
\* the live board keeps its rows, the clone carries the move.
simulate(b, t, piece, fx, fy, tx, ty) ==
  LET c1 == put(b, tx, ty, piece)
      c2 == put(c1, fx, fy, ".")
      c3 == IF lower_char(piece) = "p" /\ ty \in {0, 7}
              THEN put(c2, tx, ty, IF t = "w" THEN "Q" ELSE "q")
              ELSE c2
  IN [live |-> b, clone |-> c3]

outcome(res, b, t) == [result |-> res, board |-> b, turn |-> t]

\* Faulty variant of the ownership test: the color test of line 158 dropped.
no_piece_empty_only(b, t, fx, fy) == b[fy][fx] = "."

no_piece(b, t, fx, fy) == b[fy][fx] = "." \/ color(b[fy][fx]) # t

\* Faulty variant of the turn flip: both branches of line 174 give Black.
flip_to_black(t) == IF t = "w" THEN "b" ELSE "b"

flip(t) == IF t = "w" THEN "b" ELSE "w"

attempt_move(b, t, text) ==
  LET parsed == parse_move(text)
  IN IF parsed = NoTuple THEN outcome(BadFormat, b, t)
     ELSE LET fx == parsed[1]
              fy == parsed[2]
              tx == parsed[3]
              ty == parsed[4]
              piece == b[fy][fx]
          IN IF no_piece(b, t, fx, fy)
               THEN outcome(NoPieceOrWrongColor, b, t)
             ELSE IF <<tx, ty>> \notin Range(moves_for(b, fx, fy))
               THEN outcome(IllegalDestination, b, t)
             ELSE LET sim == simulate(b, t, piece, fx, fy, tx, ty)
                  IN IF is_in_check(sim.clone, t)
                       THEN outcome(LeavesKingInCheck, sim.live, t)
                       ELSE outcome(Accepted, sim.clone, flip(t))

(***************************************************************************)
(* Board cells indexed.  For each routine, the set of pairs <<column, row>> *)
(* it uses in an expression board[row][column] or clone[row][column],      *)
(* following the same tests as the routine itself.                         *)
(***************************************************************************)
\* add: the bounds test of line 43 comes before the read of line 45.
add_cells(nx, ny) == IF in_bounds(nx, ny) THEN {<<nx, ny>>} ELSE {}

\* ray: the loop of lines 53-61 reads a cell while it is in bounds and stops
\* after the first occupied one.
RECURSIVE ray_cells_from(_, _, _, _, _)
ray_cells_from(b, nx, ny, dx, dy) ==
  IF ~in_bounds(nx, ny) THEN {}
  ELSE {<<nx, ny>>} \cup
       (IF b[ny][nx] # "." THEN {} ELSE ray_cells_from(b, nx + dx, ny + dy, dx, dy))

ray_cells(b, x, y, dirs) ==
  UNION {ray_cells_from(b, x + dirs[i][1], y + dirs[i][2], dirs[i][1], dirs[i][2]) :
           i \in 1..Len(dirs)}

offset_cells(x, y, offsets) ==
  UNION {add_cells(x + offsets[i][1], y + offsets[i][2]) : i \in 1..Len(offsets)}

\* Faulty variant of the pawn's forward probes: the two-step cell is read
\* from any row (line 71 without the test y == start_row).
pawn_forward_cells_any_row(b, c, x, y) ==
  LET direction == IF c = "w" THEN -1 ELSE 1
      one       == y + direction
      two       == y + 2 * direction
  IN IF in_bounds(x, one)
       THEN {<<x, one>>} \cup (IF b[one][x] = "." THEN {<<x, two>>} ELSE {})
       ELSE {}

\* lines 68-72: board[one][x] after in_bounds(x, one); board[two][x] only
\* after y == start_row.
pawn_forward_cells(b, c, x, y) ==
  LET direction == IF c = "w" THEN -1 ELSE 1
      start_row == IF c = "w" THEN 6 ELSE 1
      one       == y + direction
      two       == y + 2 * direction
  IN IF in_bounds(x, one)
       THEN {<<x, one>>} \cup
            (IF b[one][x] = "." /\ y = start_row THEN {<<x, two>>} ELSE {})
       ELSE {}

\* lines 73-76: board[ny][nx] after in_bounds(nx, ny).
pawn_capture_cells(c, x, y, dx) ==
  LET direction == IF c = "w" THEN -1 ELSE 1
  IN IF in_bounds(x + dx, y + direction) THEN {<<x + dx, y + direction>>} ELSE {}

moves_for_cells(b, x, y) ==
  LET piece == b[y][x]
      c     == color(piece)
      p     == lower_char(piece)
  IN {<<x, y>>} \cup
     (IF c = None THEN {}
      ELSE IF p = "p"
        THEN pawn_forward_cells(b, c, x, y)
               \cup pawn_capture_cells(c, x, y, -1) \cup pawn_capture_cells(c, x, y, 1)
      ELSE IF p = "n" THEN offset_cells(x, y, KnightOffsets)
      ELSE (IF p \in {"b", "q"} THEN ray_cells(b, x, y, DiagonalDirs) ELSE {})
        \cup (IF p \in {"r", "q"} THEN ray_cells(b, x, y, StraightDirs) ELSE {})
        \cup (IF p = "k" THEN offset_cells(x, y, KingOffsets) ELSE {}))

\* is_in_check: the king scan of lines 113-116 up to the first king, then,
\* with a king found, the scan of lines 119-122 and the move generation for
\* every enemy piece (the cells of the whole scan; a scan that returns on a
\* hit uses a part of them).
is_in_check_cells(b, side) ==
  LET king == IF side = "w" THEN "K" ELSE "k"
  IN IF \A i \in 0..63 : b[i \div 8][i % 8] # king
       THEN {<<i % 8, i \div 8>> : i \in 0..63}
       ELSE {<<i % 8, i \div 8>> : i \in 0..63} \cup
            UNION {moves_for_cells(b, i % 8, i \div 8) :
                     i \in {j \in 0..63 : /\ color(b[j \div 8][j % 8]) # None
                                          /\ color(b[j \div 8][j % 8]) # side}}

\* one iteration of the loop of main: the lookup of line 157, the move
\* generation of line 161, the writes of lines 166-169 and the check scan
\* of line 170 on the clone.
main_cells(b, t, text) ==
  LET parsed == parse_move(text)
  IN IF parsed = NoTuple THEN {}
     ELSE LET fx == parsed[1]
              fy == parsed[2]
              tx == parsed[3]
              ty == parsed[4]
          IN {<<fx, fy>>} \cup
             (IF no_piece(b, t, fx, fy) THEN {}
              ELSE moves_for_cells(b, fx, fy) \cup
                   (IF <<tx, ty>> \notin Range(moves_for(b, fx, fy)) THEN {}
                    ELSE {<<tx, ty>>, <<fx, fy>>} \cup
                         is_in_check_cells(simulate(b, t, b[fy][fx], fx, fy, tx, ty).clone, t)))

(***************************************************************************)
(* Inputs typed at the prompt.  The first input ranges over every          *)
(* coordinate text from the e file; all inputs range over the moves of     *)
(* a few recorded games, played move by move, and a fixed set of other     *)
(* texts.  MaxMoves bounds the number of accepted moves.                   *)
(***************************************************************************)
MaxMoves == 12

Coord(fx, fy, tx, ty) == << FILES[fx + 1], RANKS[8 - fy], FILES[tx + 1], RANKS[8 - ty] >>

AllCoords == {Coord(fx, fy, tx, ty) : fx \in Idx, fy \in Idx, tx \in Idx, ty \in Idx}

\* Every coordinate text whose source square is on the e file.
FirstInputs == {Coord(4, fy, tx, ty) : fy \in Idx, tx \in Idx, ty \in Idx}

FoolsMate ==
  << <<"f","2","f","3">>, <<"e","7","e","5">>, <<"g","2","g","4">>, <<"d","8","h","4">> >>

QueenCheck ==
  << <<"e","2","e","4">>, <<"f","7","f","6">>, <<"d","1","h","5">>, <<"g","7","g","6">> >>

\* Both sides promote: White on g8 (move 6), Black on b1 (move 6).
Promotions ==
  << <<"h","2","h","4">>, <<"a","7","a","5">>, <<"b","2","b","4">>, <<"a","5","b","4">>,
     <<"h","4","h","5">>, <<"g","7","g","6">>, <<"h","5","g","6">>, <<"b","4","b","3">>,
     <<"g","6","h","7">>, <<"b","3","a","2">>, <<"h","7","g","8">>, <<"a","2","b","1">> >>

\* The same two games with other last inputs: a pawn move that ignores the
\* check, and a king step onto an attacked square.
QueenCheckIgnored ==
  << <<"e","2","e","4">>, <<"f","7","f","6">>, <<"d","1","h","5">>, <<"a","7","a","6">> >>

FoolsMateKingStep ==
  << <<"f","2","f","3">>, <<"e","7","e","5">>, <<"g","2","g","4">>, <<"d","8","h","4">>,
     <<"e","1","f","2">> >>

\* The queen that gives check is then asked to take the king.
KingCapture ==
  << <<"e","2","e","4">>, <<"f","7","f","6">>, <<"d","1","h","5">>, <<"a","7","a","6">>,
     <<"h","5","e","8">> >>

Games ==
  {FoolsMate, QueenCheck, Promotions, QueenCheckIgnored, FoolsMateKingStep, KingCapture}

OtherTexts ==
  { <<>>, <<"e","2">>, <<"e","2","-","e","4">>, <<"e","9","e","4">>, <<"i","2","e","4">>,
    <<" ","E","2","E","4"," ">>, <<"e","2"," ","e","4">>, <<"e","2","\t","e","4">>,
    <<"a","8","a","7">>, <<"a","1","a","2">>, <<"d","4","d","5">>,
    <<"q">>, <<"Q","u","i","t">>, <<"e","x","i","t"," ">> }

InputsAt(n, first) ==
  {g[n + 1] : g \in {h \in Games : Len(h) > n}}
    \cup OtherTexts
    \cup (IF first THEN FirstInputs ELSE {})

(***************************************************************************)
(* The program: main().                                                    *)
(***************************************************************************)
NoCall == [fn |-> None, x |-> 0, y |-> 0, side |-> None, ret |-> <<>>]

Init ==
  /\ board = new_board
  /\ turn = "w"
  /\ pc = "await"
  /\ move = <<>>
  /\ result = None
  /\ prev = [board |-> new_board, turn |-> "w"]
  /\ accepted = 0
  /\ call = NoCall

\* move = input(...).strip(); a quit word leaves the loop.
Quit ==
  \E text \in InputsAt(accepted, result = None) :
    /\ pc = "await"
    /\ lower(strip(text)) \in QuitWords
    /\ pc' = "done"
    /\ move' = strip(text)
    /\ UNCHANGED <<board, turn, result, prev, accepted, call>>

\* One iteration of the loop on any other input.
AttemptMove ==
  \E text \in InputsAt(accepted, result = None) :
    /\ pc = "await"
    /\ accepted < MaxMoves
    /\ lower(strip(text)) \notin QuitWords
    /\ \E r \in {attempt_move(board, turn, strip(text))} :
          /\ move' = strip(text)
          /\ result' = r.result
          /\ board' = r.board
          /\ turn' = r.turn
          /\ prev' = [board |-> board, turn |-> turn]
          /\ accepted' = IF r.result = Accepted THEN accepted + 1 ELSE accepted
    /\ UNCHANGED <<pc, call>>

Next == Quit \/ AttemptMove

Spec == Init /\ [][Next]_vars

(***************************************************************************)
(* The move generator on arbitrary boards: any placement of pieces, drawn  *)
(* from a family of scattered boards of varying density, and any square.   *)
(***************************************************************************)
NumBoards == 300

Glyphs == <<"P","N","B","R","Q","K","p","n","b","r","q","k">>

ScatterCell(s, x, y) ==
  LET h == (s * s * 31 + s * (17 * x + 29 * y + 7) + 13 * x * y + 5 * x + 11 * y) % 97
      k == h % (13 + 12 * (s % 5))
  IN IF k < 12 THEN Glyphs[k + 1] ELSE "."

Scatter(s) == [y \in Idx |-> [x \in Idx |-> ScatterCell(s, x, y)]]

InitBoards ==
  /\ board \in {Scatter(s) : s \in 1..NumBoards}
  /\ turn = "w"
  /\ pc = "call"
  /\ move = <<>>
  /\ result = None
  /\ prev = [board |-> board, turn |-> "w"]
  /\ accepted = 0
  /\ call = NoCall

CallMovesFor ==
  \E x \in Idx, y \in Idx :
    /\ pc = "call"
    /\ call.fn = None
    /\ call' = [fn |-> "moves_for", x |-> x, y |-> y, side |-> None,
                ret |-> moves_for(board, x, y)]
    /\ UNCHANGED <<board, turn, pc, move, result, prev, accepted>>

CallIsInCheck ==
  \E side \in {"w", "b"} :
    /\ pc = "call"
    /\ call.fn = None
    /\ call' = [fn |-> "is_in_check", x |-> 0, y |-> 0, side |-> side,
                ret |-> is_in_check(board, side)]
    /\ UNCHANGED <<board, turn, pc, move, result, prev, accepted>>

NextBoards == CallMovesFor \/ CallIsInCheck

SpecBoards == InitBoards /\ [][NextBoards]_vars

(***************************************************************************)
(* The notation parser on arbitrary texts: every text of at most           *)
(* MaxTextLen characters over TextChars, and every coordinate text.        *)
(***************************************************************************)
MaxTextLen == 5

TextChars == {"a", "B", "i", "1", "9", " ", "\t"}

Texts == UNION {[1..n -> TextChars] : n \in 0..MaxTextLen} \cup AllCoords

InitParse ==
  /\ board = new_board
  /\ turn = "w"
  /\ pc = "call"
  /\ move \in Texts
  /\ result = None
  /\ prev = [board |-> new_board, turn |-> "w"]
  /\ accepted = 0
  /\ call = NoCall

CallParseMove ==
  /\ pc = "call"
  /\ call.fn = None
  /\ call' = [fn |-> "parse_move", x |-> 0, y |-> 0, side |-> None,
              ret |-> parse_move(move)]
  /\ UNCHANGED <<board, turn, pc, move, result, prev, accepted>>

NextParse == CallParseMove

SpecParse == InitParse /\ [][NextParse]_vars

(***************************************************************************)
(* Properties of the move generator (checked under SpecBoards).            *)
(***************************************************************************)
At(b, sq) == b[sq[2]][sq[1]]

Called == call.fn = "moves_for"

CallPiece == board[call.y][call.x]

CallColor == color(CallPiece)

Forward(c) == IF c = "w" THEN -1 ELSE 1

StartRow(c) == IF c = "w" THEN 6 ELSE 1

\* C5: no destination returned by the move generator is occupied by a piece
\* of the same color as the piece on the source square, on any board, for
\* any square and any of the six piece kinds.
C5_NoFriendlyDestination ==
  Called =>
    \A i \in 1..Len(call.ret) :
      /\ in_bounds(call.ret[i][1], call.ret[i][2])
      /\ color(At(board, call.ret[i])) # CallColor

\* A pawn with a friendly piece on one forward diagonal and an enemy piece on
\* the other: the enemy square is returned.
C5_Witness ==
  /\ Called
  /\ lower_char(CallPiece) = "p"
  /\ in_bounds(call.x - 1, call.y + Forward(CallColor))
  /\ in_bounds(call.x + 1, call.y + Forward(CallColor))
  /\ color(board[call.y + Forward(CallColor)][call.x - 1]) = CallColor
  /\ color(board[call.y + Forward(CallColor)][call.x + 1]) \notin {CallColor, None}
  /\ <<call.x + 1, call.y + Forward(CallColor)>> \in Range(call.ret)

RayDirections(p) ==
  (IF p \in {"b", "q"} THEN {<<1, 1>>, <<1, -1>>, <<-1, 1>>, <<-1, -1>>} ELSE {})
    \cup (IF p \in {"r", "q"} THEN {<<1, 0>>, <<-1, 0>>, <<0, 1>>, <<0, -1>>} ELSE {})

RaySquare(d, k) == <<call.x + k * d[1], call.y + k * d[2]>>

RayInBounds(d, k) == in_bounds(RaySquare(d, k)[1], RaySquare(d, k)[2])

\* every square strictly between the piece and the k-th square of the ray is empty
RayClear(d, k) == \A j \in 1..(k - 1) : At(board, RaySquare(d, j)) = "."

IsSlider == Called /\ lower_char(CallPiece) \in {"b", "r", "q"}

\* C6: for a bishop, rook or queen, along each of its ray directions a square
\* is returned iff every square before it is empty and it is not occupied by
\* a friendly piece: empty squares up to the first occupant are included, the
\* first occupant is included iff it is an enemy, nothing beyond it is; and
\* nothing off the rays is returned.
C6_RayStopsAtFirstOccupant ==
  IsSlider =>
    /\ \A d \in RayDirections(lower_char(CallPiece)) : \A k \in 1..7 :
         RayInBounds(d, k) =>
           (RaySquare(d, k) \in Range(call.ret)
              <=> (RayClear(d, k) /\ color(At(board, RaySquare(d, k))) # CallColor))
    /\ \A i \in 1..Len(call.ret) :
         \E d \in RayDirections(lower_char(CallPiece)) : \E k \in 1..7 :
           call.ret[i] = RaySquare(d, k)

\* A slider with, on one ray, empty squares, then an enemy piece and a square
\* behind it, and on another ray empty squares and then a friendly piece.
C6_Witness ==
  /\ IsSlider
  /\ \E d \in RayDirections(lower_char(CallPiece)) : \E k \in 2..6 :
       /\ RayInBounds(d, k + 1)
       /\ RayClear(d, k)
       /\ color(At(board, RaySquare(d, k))) \notin {CallColor, None}
       /\ RaySquare(d, k) \in Range(call.ret)
       /\ RaySquare(d, k + 1) \notin Range(call.ret)
  /\ \E d \in RayDirections(lower_char(CallPiece)) : \E k \in 2..7 :
       /\ RayInBounds(d, k)
       /\ RayClear(d, k)
       /\ color(At(board, RaySquare(d, k))) = CallColor
       /\ RaySquare(d, k - 1) \in Range(call.ret)

IsPawn == Called /\ lower_char(CallPiece) = "p"

ForwardCount == Cardinality({i \in 1..Len(call.ret) : call.ret[i][1] = call.x})

DiagonalCount == Cardinality({i \in 1..Len(call.ret) : call.ret[i][1] # call.x})

OnStartRowWithTwoFree ==
  /\ call.y = StartRow(CallColor)
  /\ board[call.y + Forward(CallColor)][call.x] = "."
  /\ board[call.y + 2 * Forward(CallColor)][call.x] = "."

\* C7: a pawn on its own starting row (row 6 for White, row 1 for Black) with
\* both squares ahead empty has exactly 2 forward (same-file) destinations
\* plus between 0 and 2 diagonal ones; a pawn not on its starting row has at
\* most 1 forward destination.
C7_PawnForwardCount ==
  IsPawn =>
    /\ OnStartRowWithTwoFree =>
         /\ ForwardCount = 2
         /\ DiagonalCount \in 0..2
         /\ <<call.x, call.y + Forward(CallColor)>> \in Range(call.ret)
         /\ <<call.x, call.y + 2 * Forward(CallColor)>> \in Range(call.ret)
    /\ call.y # StartRow(CallColor) => ForwardCount <= 1

\* A pawn on its starting row with both squares ahead empty and a capture.
C7_Witness ==
  /\ IsPawn
  /\ OnStartRowWithTwoFree
  /\ ForwardCount = 2
  /\ DiagonalCount >= 1

(***************************************************************************)
(* Properties of the turn controller (checked under Spec).  prev is the    *)
(* GameState before the last handled input, move the text of that input    *)
(* and result what the controller answered.                                *)
(***************************************************************************)
Handled == pc = "await" /\ result # None

Other(side) == IF side = "w" THEN "b" ELSE "w"

KingGlyph(side) == IF side = "w" THEN "K" ELSE "k"

QueenGlyph(side) == IF side = "w" THEN "Q" ELSE "q"

Squares == {<<x, y>> : x \in Idx, y \in Idx}

\* side's king stands on a pseudo-legal destination of an enemy piece
Attacked(b, side) ==
  \E k \in Squares : \E e \in Squares :
    /\ At(b, k) = KingGlyph(side)
    /\ color(At(b, e)) = Other(side)
    /\ k \in Range(moves_for(b, e[1], e[2]))

From(text) == <<parse_move(text)[1], parse_move(text)[2]>>

To(text) == <<parse_move(text)[3], parse_move(text)[4]>>

Parses(text) == parse_move(text) # NoTuple

OwnPiece(b, t, text) == color(At(b, From(text))) = t

PseudoLegal(b, t, text) ==
  /\ Parses(text)
  /\ OwnPiece(b, t, text)
  /\ To(text) \in Range(moves_for(b, From(text)[1], From(text)[2]))

\* the board of the specification's withMove: the piece goes from the source
\* to the destination, a pawn arriving on row 0 or 7 becomes a queen
WithMove(b, t, from, to) ==
  [y \in Idx |-> [x \in Idx |->
     IF <<x, y>> = to
       THEN (IF lower_char(At(b, from)) = "p" /\ to[2] \in {0, 7}
               THEN QueenGlyph(t) ELSE At(b, from))
     ELSE IF <<x, y>> = from THEN "."
     ELSE b[y][x]]]

\* C1: a rejected input, for any of the four reasons, leaves the live board
\* and the side to move exactly as before the call; the writes to the
\* simulation clone are never visible in the live board.
C1_RejectionLeavesStateUnchanged ==
  (Handled /\ result \in Rejections) => (board = prev.board /\ turn = prev.turn)

\* A move was simulated on the clone and rejected for leaving the king in check.
C1_Witness ==
  /\ Handled
  /\ result = LeavesKingInCheck
  /\ WithMove(prev.board, prev.turn, From(move), To(move)) # board

\* C2: White moves first and the side to move flips on every accepted move
\* and only then: it is White iff the number of accepted moves is even, an
\* accepted move changes it and a rejected input does not.
C2_TurnAlternates ==
  /\ (turn = "w") <=> (accepted % 2 = 0)
  /\ Handled => ((result = Accepted) <=> (turn # prev.turn))

\* An input is rejected after both sides have moved, with Black to move.
C2_Witness ==
  /\ Handled
  /\ accepted >= 3
  /\ turn = "b"
  /\ result \in Rejections

\* C3: in every reachable GameState the side that is not to move (the side
\* that just moved) is not in check: its king's square is not among the
\* pseudo-legal destinations of any piece of the side to move.
C3_MoverNotLeftInCheck == ~Attacked(board, Other(turn))

\* A move that would have left the mover in check was refused, and the side
\* to move is in check itself.
C3_Witness ==
  /\ Handled
  /\ result = LeavesKingInCheck
  /\ Attacked(board, turn)
  /\ ~Attacked(board, Other(turn))

ExpectedResult(b, t, text) ==
  IF ~Parses(text) THEN BadFormat
  ELSE IF At(b, From(text)) = "." \/ color(At(b, From(text))) = Other(t)
    THEN NoPieceOrWrongColor
  ELSE IF To(text) \notin Range(moves_for(b, From(text)[1], From(text)[2]))
    THEN IllegalDestination
  ELSE IF Attacked(WithMove(b, t, From(text), To(text)), t)
    THEN LeavesKingInCheck
  ELSE Accepted

\* C4: the four checks are applied in a fixed order and the first that fails
\* is reported: BadFormat, else NoPieceOrWrongColor, else IllegalDestination,
\* else LeavesKingInCheck; the move is Accepted exactly when none fails.
C4_FirstFailingCheckIsReported ==
  Handled => result = ExpectedResult(prev.board, prev.turn, move)

\* The source square holds a piece of the side not to move and the
\* destination is no pseudo-legal destination of it: the ownership error wins.
C4_Witness ==
  /\ Handled
  /\ result = NoPieceOrWrongColor
  /\ color(At(prev.board, From(move))) = Other(prev.turn)
  /\ To(move) \notin Range(moves_for(prev.board, From(move)[1], From(move)[2]))

\* the coordinate texts that pass the format, ownership and destination
\* checks on b and after which t's king is not attacked
Escapes(b, t) ==
  {m \in AllCoords :
     PseudoLegal(b, t, m) /\ ~Attacked(WithMove(b, t, From(m), To(m)), t)}

\* C8: from a position where the side to move is in check, an input that
\* passes the format, ownership and destination checks is Accepted iff the
\* mover's king is not attacked on the board after the move, and is rejected
\* with LeavesKingInCheck otherwise; where a single move escapes, that move
\* is Accepted and every other pseudo-legal move is rejected with
\* LeavesKingInCheck.
C8_OnlyEscapesAcceptedInCheck ==
  /\ (Handled /\ Attacked(prev.board, prev.turn)
        /\ PseudoLegal(prev.board, prev.turn, move)) =>
       IF Attacked(WithMove(prev.board, prev.turn, From(move), To(move)), prev.turn)
         THEN result = LeavesKingInCheck /\ board = prev.board
         ELSE result = Accepted
                /\ board = WithMove(prev.board, prev.turn, From(move), To(move))
  /\ (Handled /\ result = Accepted /\ Attacked(board, turn)) =>
       \A escapes \in {Escapes(board, turn)} :
         Cardinality(escapes) = 1 =>
           \A m \in AllCoords :
             PseudoLegal(board, turn, m) =>
               attempt_move(board, turn, m).result =
                 (IF m \in escapes THEN Accepted ELSE LeavesKingInCheck)

\* The side to move was in check with a single escaping move, and played it.
C8_Witness ==
  /\ Handled
  /\ result = Accepted
  /\ Attacked(prev.board, prev.turn)
  /\ Escapes(prev.board, prev.turn) = {move}
  /\ \E m \in AllCoords :
       /\ PseudoLegal(prev.board, prev.turn, m)
       /\ attempt_move(prev.board, prev.turn, m).result = LeavesKingInCheck

PromotionMove ==
  /\ Handled
  /\ result = Accepted
  /\ lower_char(At(prev.board, From(move))) = "p"
  /\ To(move)[2] \in {0, 7}

\* C9: whenever an accepted move brings a pawn to row 0 or row 7, the
\* destination square of the resulting board holds a Queen of the mover's
\* color and not a pawn, and the mover is not in check on that board (the
\* check test saw the queen).
C9_PawnOnLastRowBecomesQueen ==
  PromotionMove =>
    /\ At(board, To(move)) = QueenGlyph(prev.turn)
    /\ lower_char(At(board, To(move))) # "p"
    /\ board = WithMove(prev.board, prev.turn, From(move), To(move))
    /\ ~Attacked(board, prev.turn)

\* Black has just promoted on row 7 and White's queen from its promotion on
\* row 0 is on the board.
C9_Witness ==
  /\ PromotionMove
  /\ prev.turn = "b"
  /\ To(move)[2] = 7
  /\ At(board, To(move)) = "q"
  /\ board[0][6] = "Q"
  /\ new_board[0][6] = "n"

AfterE2E4 ==
  Rows(<< Row(<<"r","n","b","q","k","b","n","r">>),
          Row(<<"p","p","p","p","p","p","p","p">>),
          Row(<<".",".",".",".",".",".",".",".">>),
          Row(<<".",".",".",".",".",".",".",".">>),
          Row(<<".",".",".",".","P",".",".",".">>),
          Row(<<".",".",".",".",".",".",".",".">>),
          Row(<<"P","P","P","P",".","P","P","P">>),
          Row(<<"R","N","B","Q","K","B","N","R">>) >>)

FirstInputWas(text) ==
  /\ Handled
  /\ prev.board = new_board
  /\ prev.turn = "w"
  /\ move = text

\* C10: on the initial GameState the input "e2e4" is Accepted; the resulting
\* board has e2 (column 4, row 6) empty, e4 (column 4, row 4) holding a White
\* pawn and every other square as in the initial position, and Black is to
\* move.
C10_E2E4Accepted ==
  FirstInputWas(<<"e","2","e","4">>) =>
    /\ result = Accepted
    /\ board = AfterE2E4
    /\ board[6][4] = "." /\ board[4][4] = "P"
    /\ \A y \in Idx : \A x \in Idx :
         (<<x, y>> \notin {<<4, 6>>, <<4, 4>>}) => board[y][x] = new_board[y][x]
    /\ turn = "b"

\* "e2e4" was the input on the initial GameState.
C10_Witness ==
  /\ FirstInputWas(<<"e","2","e","4">>)
  /\ accepted = 1
  /\ board[4][4] = "P"

\* C11: on the initial GameState the input "e2e5" is rejected with the reason
\* IllegalDestination, none of the other three, and the state stays the
\* initial position with White to move.
C11_E2E5IllegalDestination ==
  FirstInputWas(<<"e","2","e","5">>) =>
    /\ result = IllegalDestination
    /\ result \notin {BadFormat, NoPieceOrWrongColor, LeavesKingInCheck, Accepted}
    /\ board = new_board
    /\ turn = "w"
    /\ accepted = 0

\* "e2e5" was the input on the initial GameState and was answered.
C11_Witness ==
  /\ FirstInputWas(<<"e","2","e","5">>)
  /\ result \in Rejections
  /\ prev.board[3][4] = "."

\* the same text is handled again, right after it was rejected
RejectedThenSameInput ==
  /\ Handled
  /\ result \in Rejections
  /\ pc' = "await"
  /\ move' = move

\* C12: rejection is idempotent and deterministic: when an input is rejected
\* and the same input is submitted again immediately, the second call gives
\* the same reason, and the state after the first and after the second call
\* is the state before the first.
C12_RejectionIdempotent ==
  /\ [](Handled /\ result \in Rejections =>
          /\ board = prev.board /\ turn = prev.turn
          /\ attempt_move(board, turn, move) = outcome(result, prev.board, prev.turn))
  /\ [][RejectedThenSameInput =>
          /\ result' = result
          /\ board' = board /\ turn' = turn
          /\ board' = prev.board /\ turn' = prev.turn
          /\ prev' = prev /\ accepted' = accepted]_vars

\* An input was rejected after its move had been simulated, and the same
\* text is among the inputs that can be submitted next; the state is the one
\* before the call.
C12_Witness ==
  /\ Handled
  /\ result = LeavesKingInCheck
  /\ accepted < MaxMoves
  /\ \E text \in InputsAt(accepted, FALSE) : strip(text) = move
  /\ board = prev.board
  /\ attempt_move(board, turn, move).result = LeavesKingInCheck

(***************************************************************************)
(* Properties of the notation parser (checked under SpecParse).            *)
(***************************************************************************)
ParseCalled == call.fn = "parse_move"

IsFile(ch) == \E i \in 1..8 : FILES[i] = lower_char(ch)

IsRank(ch) == \E i \in 1..8 : RANKS[i] = ch

\* The text is exactly four characters file-rank-file-rank.
FourInPattern(m) ==
  /\ Len(m) = 4
  /\ IsFile(m[1]) /\ IsRank(m[2]) /\ IsFile(m[3]) /\ IsRank(m[4])

\* Four characters file-rank-file-rank with nothing but space characters
\* between them and nothing but whitespace around them.
FourSpacedOut(s) ==
  \E i1, i2, i3, i4 \in 1..Len(s) :
    /\ i1 < i2 /\ i2 < i3 /\ i3 < i4
    /\ IsFile(s[i1]) /\ IsRank(s[i2]) /\ IsFile(s[i3]) /\ IsRank(s[i4])
    /\ \A j \in (1..Len(s)) \ {i1, i2, i3, i4} :
         IF i1 < j /\ j < i4 THEN s[j] = " " ELSE s[j] \in Whitespace

IsMove(r) == r \in Idx \X Idx \X Idx \X Idx

\* C13 as stated: parse_move returns a Move only for inputs that, after
\* removing surrounding whitespace and lowercasing, are exactly four
\* characters file-rank-file-rank; every other input, such as one with
\* whitespace between the four characters, yields an error.
C13_StrictFourCharacters ==
  ParseCalled =>
    /\ (call.ret # NoTuple) <=> FourInPattern(strip(move))
    /\ call.ret # NoTuple => IsMove(call.ret)

\* C13 amended: parse_move returns a Move exactly for the inputs that, after
\* removing surrounding whitespace, lowercasing and deleting every space
\* character (also between the characters), are four characters
\* file-rank-file-rank; every other input yields an error (a tab between
\* the characters included), and a returned Move is never partial.
C13_FourCharactersAfterDeletingSpaces ==
  ParseCalled =>
    /\ (call.ret # NoTuple) <=> FourSpacedOut(move)
    /\ call.ret # NoTuple => IsMove(call.ret)
    /\ (\E i \in 2..(Len(strip(move)) - 1) : strip(move)[i] = "\t")
         => call.ret = NoTuple

C13_Witness ==
  /\ ParseCalled
  /\ move = <<"a", "1", " ", "B", "1">>
  /\ call.ret = <<0, 7, 1, 7>>

\* C14: for every well-formed input f1 r1 f2 r2, parse_move returns the
\* column of each file as its index in "abcdefgh" and the row of each rank r
\* as 8 - r, so all four indices are in 0..7, rank 8 is row 0 and rank 1 is
\* row 7.
C14_FileIndexAndRowEightMinusRank ==
  ParseCalled /\ FourInPattern(strip(move)) =>
    \E m \in {strip(move)} :
      /\ \A i \in 1..8 :
           /\ FILES[i] = lower_char(m[1]) => call.ret[1] = i - 1
           /\ RANKS[i] = m[2] => call.ret[2] = 8 - i
           /\ FILES[i] = lower_char(m[3]) => call.ret[3] = i - 1
           /\ RANKS[i] = m[4] => call.ret[4] = 8 - i
      /\ IsMove(call.ret)
      /\ m[2] = "8" => call.ret[2] = 0
      /\ m[2] = "1" => call.ret[2] = 7
      /\ m[4] = "8" => call.ret[4] = 0
      /\ m[4] = "1" => call.ret[4] = 7

C14_Witness ==
  /\ ParseCalled
  /\ move = <<"a", "8", "h", "1">>
  /\ call.ret = <<0, 0, 7, 7>>

(***************************************************************************)
(* Properties of the initial position and of its rendering (under Spec).   *)
(***************************************************************************)
StandardGrid ==
  << <<"r","n","b","q","k","b","n","r">>,
     <<"p","p","p","p","p","p","p","p">>,
     <<".",".",".",".",".",".",".",".">>,
     <<".",".",".",".",".",".",".",".">>,
     <<".",".",".",".",".",".",".",".">>,
     <<".",".",".",".",".",".",".",".">>,
     <<"P","P","P","P","P","P","P","P">>,
     <<"R","N","B","Q","K","B","N","R">> >>

\* The glyph grid shown by printed lines: line y + 2 is the row y, its
\* glyphs stand after the rank label at every second character.
RenderedGrid(lines) ==
  [r \in 1..8 |-> [c \in 1..8 |-> lines[r + 1][2 * c + 1]]]

BeforeFirstInput == result = None /\ pc = "await"

\* C15: the initial GameState is the standard starting position with White
\* to move (row 0 "rnbqkbnr", row 1 black pawns, rows 2-5 empty, row 6 white
\* pawns, row 7 "RNBQKBNR"), and rendering that board row-major gives
\* exactly this glyph grid.
C15_InitialPositionAndRendering ==
  BeforeFirstInput =>
    /\ \A y, x \in Idx : board[y][x] = StandardGrid[y + 1][x + 1]
    /\ turn = "w"
    /\ \A x \in Idx : color(board[0][x]) = "b" /\ color(board[1][x]) = "b"
                   /\ color(board[6][x]) = "w" /\ color(board[7][x]) = "w"
    /\ Len(print_board(board)) = 10
    /\ RenderedGrid(print_board(board)) = StandardGrid
    /\ \A r \in 1..8 :
         /\ Len(print_board(board)[r + 1]) = 17
         /\ print_board(board)[r + 1][1] = RANKS[9 - r]
         /\ \A i \in 1..8 : print_board(board)[r + 1][2 * i] = " "

C15_Witness ==
  /\ BeforeFirstInput
  /\ accepted = 0
  /\ print_board(board)[2] =
       <<"8"," ","r"," ","n"," ","b"," ","q"," ","k"," ","b"," ","n"," ","r">>
  /\ print_board(board)[9] =
       <<"1"," ","R"," ","N"," ","B"," ","Q"," ","K"," ","B"," ","N"," ","R">>

(***************************************************************************)
(* Properties of the check detector (checked under SpecBoards).            *)
(***************************************************************************)
CheckCalled == call.fn = "is_in_check"

HasKing(b, side) == \E k \in Squares : At(b, k) = KingGlyph(side)

\* C16: is_in_check(board, side) returns false for every board without a
\* king of that side, whatever enemy pieces are on it; a move of that side
\* applied on such a board is therefore never rejected with
\* LeavesKingInCheck: every input is judged by format, ownership and
\* destination alone, and a pseudo-legal one is Accepted.
C16_NoKingNeverInCheck ==
  CheckCalled /\ ~HasKing(board, call.side) =>
    /\ call.ret = FALSE
    /\ \A text \in AllCoords :
         \E r \in {attempt_move(board, call.side, text)} :
           /\ r.result # LeavesKingInCheck
           /\ PseudoLegal(board, call.side, text) => r.result = Accepted

C16_Witness ==
  /\ CheckCalled
  /\ ~HasKing(board, call.side)
  /\ call.ret = FALSE
  /\ \E e \in Squares : At(board, e) = QueenGlyph(Other(call.side))
  /\ \E text \in AllCoords :
       /\ PseudoLegal(board, call.side, text)
       /\ At(board, To(text)) = QueenGlyph(Other(call.side))
       /\ attempt_move(board, call.side, text).result = Accepted

\* sq comes first in the row-major scan of the board
ScannedBefore(sq, other) ==
  sq[2] < other[2] \/ (sq[2] = other[2] /\ sq[1] < other[1])

\* the squares of side's kings that the scan meets first (one square, the
\* king's square, when the side has a king)
KingSquares(b, side) ==
  {k \in Squares :
     /\ At(b, k) = KingGlyph(side)
     /\ \A o \in Squares : At(b, o) = KingGlyph(side) => ~ScannedBefore(o, k)}

OneKing(b, side) ==
  \E k \in Squares : \A o \in Squares : At(b, o) = KingGlyph(side) <=> o = k

\* C18: on every board where the side has a king, is_in_check(board, side)
\* is true iff some square holds a piece of the opposing color whose
\* pseudo-legal moves contain the king's square (the first king met in the
\* row-major scan, should the board hold several); no piece of the side's
\* own color has the king's square among its moves, so none causes a true
\* result; and the call leaves the board as it was.
C18_CheckIffEnemyAttacksKingSquare ==
  /\ [](CheckCalled /\ HasKing(board, call.side) =>
          \A k \in KingSquares(board, call.side) :
            /\ call.ret \in BOOLEAN
            /\ call.ret <=>
                 \E e \in Squares :
                   /\ color(At(board, e)) = Other(call.side)
                   /\ k \in Range(moves_for(board, e[1], e[2]))
            /\ \A o \in Squares :
                 color(At(board, o)) = call.side
                   => k \notin Range(moves_for(board, o[1], o[2])))
  /\ [][call'.fn = "is_in_check" => board' = board]_vars

C18_Witness ==
  /\ CheckCalled
  /\ OneKing(board, call.side)
  /\ call.ret = TRUE
  /\ \E k \in KingSquares(board, call.side) : \E o \in Squares :
       /\ color(At(board, o)) = call.side
       /\ o # k
       /\ \E e \in Squares :
            /\ color(At(board, e)) = Other(call.side)
            /\ k \in Range(moves_for(board, e[1], e[2]))

(***************************************************************************)
(* Frame of an accepted move (checked under Spec).                         *)
(***************************************************************************)
\* C17: the board committed by an accepted move differs from the previous
\* live board in at most the two squares of the move: the source square is
\* empty, the destination square holds the moved piece (or its promotion
\* queen) whatever stood there before, and each of the other 62 squares is
\* unchanged.
C17_AcceptedMoveChangesTwoSquares ==
  Handled /\ result = Accepted =>
    \E from \in {From(move)} : \E to \in {To(move)} :
      /\ from # to
      /\ At(board, from) = "."
      /\ At(board, to) =
           (IF lower_char(At(prev.board, from)) = "p" /\ to[2] \in {0, 7}
              THEN QueenGlyph(prev.turn)
              ELSE At(prev.board, from))
      /\ \A sq \in Squares \ {from, to} : At(board, sq) = At(prev.board, sq)
      /\ Cardinality({sq \in Squares : At(board, sq) # At(prev.board, sq)}) \in {1, 2}

C17_Witness ==
  /\ Handled
  /\ result = Accepted
  /\ color(At(prev.board, To(move))) = turn
  /\ At(board, To(move)) = At(prev.board, From(move))
  /\ At(board, From(move)) = "."

(***************************************************************************)
(* Pawn moves and captures (checked under SpecBoards).                     *)
(***************************************************************************)
Returned(sq) == sq \in Range(call.ret)

OnBoard(sq) == sq[1] \in Idx /\ sq[2] \in Idx

PawnDiagonal(dx) == <<call.x + dx, call.y + Forward(CallColor)>>

PawnAhead(n) == <<call.x, call.y + n * Forward(CallColor)>>

\* C19: for every board and every pawn, a diagonally-forward square is
\* returned iff it is in bounds and occupied by an enemy piece (never when
\* empty); a forward same-file square is returned only if it is empty (the
\* one-step square iff it is in bounds and empty); the two-step square is
\* returned iff the pawn is on its own starting row and both the
\* intermediate and the destination square are empty; nothing else is
\* returned.
C19_PawnCaptureAsymmetry ==
  IsPawn =>
    /\ \A dx \in {-1, 1} :
         Returned(PawnDiagonal(dx)) <=>
           /\ OnBoard(PawnDiagonal(dx))
           /\ color(At(board, PawnDiagonal(dx))) = Other(CallColor)
    /\ \A sq \in Range(call.ret) :
         sq[1] = call.x => OnBoard(sq) /\ At(board, sq) = "."
    /\ Returned(PawnAhead(1)) <=>
         OnBoard(PawnAhead(1)) /\ At(board, PawnAhead(1)) = "."
    /\ Returned(PawnAhead(2)) <=>
         /\ call.y = StartRow(CallColor)
         /\ At(board, PawnAhead(1)) = "."
         /\ At(board, PawnAhead(2)) = "."
    /\ Range(call.ret) \subseteq
         {PawnDiagonal(-1), PawnDiagonal(1), PawnAhead(1), PawnAhead(2)}

C19_Witness ==
  /\ IsPawn
  /\ OnBoard(PawnAhead(1))
  /\ color(At(board, PawnAhead(1))) = Other(CallColor)
  /\ \E dx \in {-1, 1} :
       /\ OnBoard(PawnDiagonal(dx)) /\ OnBoard(PawnDiagonal(-dx))
       /\ At(board, PawnDiagonal(dx)) = "."
       /\ color(At(board, PawnDiagonal(-dx))) = Other(CallColor)
       /\ call.ret = << PawnDiagonal(-dx) >>

(***************************************************************************)
(* No end of game (checked under Spec).                                    *)
(***************************************************************************)
\* every move of a piece of side t to one of its pseudo-legal destinations
\* leaves the king of t attacked
NoAcceptableMove(b, t) ==
  \A from \in Squares :
    color(At(b, from)) = t =>
      \A to \in Range(moves_for(b, from[1], from[2])) :
        Attacked(WithMove(b, t, from, to), t)

Stuck == pc = "await" /\ NoAcceptableMove(board, turn)

\* C20: the controller never declares the game over and never leaves the
\* input loop on its own (only a quit word ends it); in a reachable position
\* where the side to move has no acceptable move, such as the checkmate
\* after f2f3, e7e5, g2g4, d8h4, every move input is rejected, the board and
\* the side to move stay unchanged from then on, and the controller keeps
\* awaiting input.
C20_NoGameOverStuckForever ==
  /\ [](pc \in {"await", "done"})
  /\ [][pc' # pc => pc' = "done" /\ lower(move') \in {<<"q">>, <<"q","u","i","t">>, <<"e","x","i","t">>}]_vars
  /\ [](Stuck =>
          \A text \in AllCoords :
            \E r \in {attempt_move(board, turn, text)} :
              r.result \in Rejections /\ r.board = board /\ r.turn = turn)
  /\ [][(board' # board \/ turn' # turn \/ (pc' = "await" /\ result' \notin Rejections))
          => ~Stuck]_vars

C20_Witness ==
  /\ Stuck
  /\ Attacked(board, turn)
  /\ turn = "w"
  /\ accepted = 4
  /\ board[4][7] = "q"
  /\ result = LeavesKingInCheck
  /\ move = <<"e","1","f","2">>

(***************************************************************************)
(* Invariants of the positions reachable in play (checked under Spec).     *)
(***************************************************************************)
Count(b, glyph) == Cardinality({sq \in Squares : At(b, sq) = glyph})

\* C21: no accepted move captures a king: in every GameState reachable from
\* the initial position the board holds exactly one White king and exactly
\* one Black king, so the check detector always finds the king it looks for.
C21_ExactlyOneKingEach ==
  /\ Count(board, "K") = 1
  /\ Count(board, "k") = 1
  /\ king_pos(board, "w") # NoTuple
  /\ king_pos(board, "b") # NoTuple
  /\ Handled /\ result = Accepted =>
       lower_char(At(prev.board, To(move))) # "k"

C21_Witness ==
  /\ Handled
  /\ result = Accepted
  /\ move = <<"d","1","h","5">>
  /\ Attacked(board, turn)
  /\ turn = "b"
  /\ attempt_move(board, turn, <<"a","7","a","6">>).result = LeavesKingInCheck
  /\ Count(board, "K") = 1
  /\ Count(board, "k") = 1

\* C22: in every GameState reachable from the initial position no pawn of
\* either color stands on row 0 or row 7: a pawn arriving on either row is
\* replaced by a queen in the step that commits the move.
C22_NoPawnOnLastRows ==
  /\ \A x \in Idx : lower_char(board[0][x]) # "p" /\ lower_char(board[7][x]) # "p"
  /\ PromotionMove => lower_char(At(board, To(move))) = "q"

C22_Witness ==
  /\ PromotionMove
  /\ prev.turn = "w"
  /\ To(move) = <<6, 0>>
  /\ At(prev.board, From(move)) = "P"
  /\ board[0][6] = "Q"
  /\ \A x \in Idx : lower_char(board[0][x]) # "p" /\ lower_char(board[7][x]) # "p"

(***************************************************************************)
(* Index safety (checked under SpecBoards).                                *)
(***************************************************************************)
\* C23: every board cell read or written while handling an input (the
\* source-piece lookup, move generation for any in-bounds source square with
\* the pawn's one-step, two-step and diagonal probes, the check scan and the
\* writes to the clone) uses a column and a row in 0..7, on any board: no
\* out-of-bounds or negative index is used, and every destination returned
\* by moves_for is in bounds.
C23_AllIndicesInBounds ==
  /\ Called =>
       /\ moves_for_cells(board, call.x, call.y) \subseteq Squares
       /\ \A i \in 1..Len(call.ret) : OnBoard(call.ret[i])
  /\ CheckCalled =>
       /\ is_in_check_cells(board, call.side) \subseteq Squares
       /\ \A from \in Squares :
            \A to \in {from} \cup Range(moves_for(board, from[1], from[2])) :
              \E text \in {Coord(from[1], from[2], to[1], to[2])} :
                /\ IsMove(parse_move(text))
                /\ main_cells(board, call.side, text) \subseteq Squares

C23_Witness ==
  /\ IsPawn
  /\ call.x = 0
  /\ call.y = StartRow(CallColor)
  /\ PawnAhead(2) \in moves_for_cells(board, call.x, call.y)
  /\ PawnDiagonal(-1) \notin moves_for_cells(board, call.x, call.y)
  /\ Len(call.ret) = 3

====
